---- MODULE Spec2Model ----
(***************************************************************************)
(* Model of src/pages/api/bot.ts: the webhook handler, the in-process      *)
(* message queue, the drain loop processQueueParallel and the retrying     *)
(* transport fetchWithRetry.                                               *)
(*                                                                         *)
(* The program runs on a single-threaded event loop: code between two      *)
(* `await`s runs to completion.  Every action below is one such run.       *)
(***************************************************************************)
EXTENDS Integers, Sequences, FiniteSets, TLC

(* ----------------------------- bounds --------------------------------- *)
\* number of POST requests that are admitted to the queue in one behaviour
MaxMsgs == 5
\* largest maxRetries argument tried for a fetchWithRetry call
MaxRetriesArg == 4
\* number of admitted requests where the handler's Response is observed
MaxAdmitted == 2

(* ------------------------- program constants --------------------------- *)
\* processQueueParallel(maxConcurrent: number = 3)
maxConcurrent == 3
\* fetchWithRetry(url, options, maxRetries = 3)
maxRetriesDefault == 3
\* 1000 * Math.pow(2, i)
backoffBase == 1000

VARIABLES
    messageQueue,       \* let messageQueue: Message[]
    processingPromise,  \* let processingPromise: 0 is null, l > 0 the promise of invocation l
    loopBatch,          \* the unfinished processQueueParallel invocations, each with its `batch`
    task,               \* per message: the async callback of batch.map for it
    arrived,            \* number of messages pushed so far (the next message is arrived + 1)
    batches,            \* history: the batches spliced off the queue, in order
    sendCalls,          \* history: number of sendMessageToBot calls made
    replies,            \* history: number of sendMessageToBot calls that returned normally
    dropped,            \* history: number of messages whose last sendMessageToBot call threw
    retry,              \* one fetchWithRetry invocation, attempt by attempt
    response,           \* the request the handler ran on last and the Response it returned
    proc                \* one message in the callback of batch.map, attempt by attempt

vars == <<messageQueue, processingPromise, loopBatch, task, arrived, batches,
          sendCalls, replies, dropped, retry, response, proc>>

Mids == 1..MaxMsgs

Min(a, b) == IF a <= b THEN a ELSE b

Range(s) == {s[i] : i \in DOMAIN s}

(* ----------------------------- requests -------------------------------- *)
Methods == {"POST", "GET", "PUT"}
\* data.target: absent, {uid}, {gid}
Targets == {"missing", "uid", "gid"}
\* data.detail: absent; present without a string content; a text message; an image file
Details == {"missing", "nocontent", "text", "image"}
\* how the bot is mentioned: not at all, in properties.mentions, as "@<id>" in the
\* content, as "@chatgpt" (any case) in the content
Mentions == {"none", "list", "inline", "alias"}

NoPayload == [json |-> FALSE, from_bot |-> FALSE, target |-> "missing",
              detail |-> "missing", mention |-> "none"]

\* The bodies req.json() can yield: unparsable, or an object of one of these
\* shapes.  Fields the handler never reads on a path are not varied on it: the
\* detail of a message of the bot itself (line 219 returns first) and the mentions
\* of a message without target (line 223 throws first).
Payloads ==
    {NoPayload} \cup
    {p \in [json : {TRUE}, from_bot : BOOLEAN, target : Targets,
            detail : Details, mention : Mentions] :
        /\ p.mention = "list" => p.detail # "missing"
        /\ p.mention \in {"inline", "alias"} => p.detail \in {"text", "image"}
        /\ p.from_bot => p.detail = "text"
        /\ (~p.from_bot /\ p.target = "missing") => p.mention = "none"}

Requests ==
    {[method |-> "POST", body |-> p] : p \in Payloads} \cup
    {[method |-> m, body |-> NoPayload] : m \in Methods \ {"POST"}}

\* mutant: the alias token is not looked for
MentionedAtGroup_NoAlias(p) ==
    IF p.detail = "missing" THEN "throws"
    ELSE IF p.mention = "list" THEN "yes"
    ELSE IF p.detail = "nocontent" THEN "throws"
    ELSE IF p.mention = "inline" THEN "yes"
    ELSE "no"

\* lines 224-227: mentions.some(...) || content.includes(`@${BOT}`) || ...includes('@chatgpt')
\* "throws" when data.detail is undefined or the content is reached and is not a string
MentionedAtGroup(p) ==
    IF p.detail = "missing" THEN "throws"
    ELSE IF p.mention = "list" THEN "yes"
    ELSE IF p.detail = "nocontent" THEN "throws"
    ELSE IF p.mention \in {"inline", "alias"} THEN "yes"
    ELSE "no"

\* mutant: no test of the sender
Admission_NoSelfCheck(req) ==
    IF req.method = "GET" THEN "get"
    ELSE IF req.method # "POST" THEN "other"
    ELSE IF ~req.body.json THEN "error"
    ELSE IF req.body.target = "missing" THEN "error"
    ELSE IF req.body.target = "gid" /\ MentionedAtGroup(req.body) = "throws" THEN "error"
    ELSE IF req.body.target = "gid" /\ MentionedAtGroup(req.body) = "no" THEN "ignored"
    ELSE "queued"

\* what the handler does with a request: "queued", "ignored", "error", "get", "other"
Admission(req) ==
    IF req.method = "GET" THEN "get"
    ELSE IF req.method # "POST" THEN "other"
    ELSE IF ~req.body.json THEN "error"
    ELSE IF req.body.from_bot THEN "ignored"
    ELSE IF req.body.target = "missing" THEN "error"
    ELSE IF req.body.target = "gid" /\ MentionedAtGroup(req.body) = "throws" THEN "error"
    ELSE IF req.body.target = "gid" /\ MentionedAtGroup(req.body) = "no" THEN "ignored"
    ELSE "queued"

\* the status of the Response the handler returns
Status(req) ==
    CASE Admission(req) = "queued"  -> 200
      [] Admission(req) = "ignored" -> 200
      [] Admission(req) = "get"     -> 200
      [] Admission(req) = "other"   -> 405
      [] Admission(req) = "error"   -> 500

(* --------------------------- message tasks ----------------------------- *)
NoTask == [pc |-> "none", kind |-> "-", body |-> "-", url |-> 0, starts |-> 0]

\* What the drain loop can see of processMessage(message): it returns a text for a
\* text or image message ("content"), whatever the backend does; it throws when
\* message.detail is undefined (isImageMessage, line 94) or when the content of a
\* non-image message is not a string (processMessageContent, line 135): "bad".
Kind(detail) == IF detail \in {"text", "image"} THEN "content" ELSE "bad"

ProcessMessageThrows(kind) == kind = "bad"

(* ----------------------------- the queue ------------------------------- *)
\* mutant: the whole array is taken as the batch
SpliceHead_Whole(q, n) == q

\* mutant: slice instead of splice, the batch stays in the array
SpliceRest_Keep(q, n) == q

\* messageQueue.splice(0, n): the removed head ...
SpliceHead(q, n) == SubSeq(q, 1, Min(n, Len(q)))
\* ... and what stays in the array
SpliceRest(q, n) == SubSeq(q, Min(n, Len(q)) + 1, Len(q))

\* mutant: the loop stops one message early
WhileCond_OffByOne(q) == Len(q) > 1

\* line 188: while (messageQueue.length > 0)
WhileCond(q) == Len(q) > 0

\* mutant: every enqueue starts a drain loop
ShouldSpawn_Always(pp) == TRUE

\* line 235: if (!processingPromise)
ShouldSpawn(pp) == pp = 0

\* lines 190-192: the async callback of batch.map starts and runs up to
\* `await processMessage(message)`
StartTask(t, msg) ==
    [t EXCEPT !.pc = "gen", !.kind = msg.kind, !.starts = @ + 1]

\* Invocation l of processQueueParallel runs from the top of its while loop, on
\* queue q, up to its next await (line 190) or to its end (line 208).
\* processingPromise is set by the callers of this operator.
ProcessQueueParallel(l, q) ==
    IF WhileCond(q)
    THEN LET batch == SpliceHead(q, maxConcurrent)
             mids  == [i \in DOMAIN batch |-> batch[i].mid]
         IN /\ messageQueue' = SpliceRest(q, maxConcurrent)
            /\ task' = [m \in Mids |->
                          IF \E i \in DOMAIN batch : batch[i].mid = m
                          THEN StartTask(task[m],
                                   batch[CHOOSE i \in DOMAIN batch : batch[i].mid = m])
                          ELSE task[m]]
            /\ loopBatch' = [x \in (DOMAIN loopBatch) \cup {l} |->
                               IF x = l THEN Range(mids) ELSE loopBatch[x]]
            /\ batches' = Append(batches, mids)
    ELSE /\ messageQueue' = q
         /\ loopBatch' = [x \in (DOMAIN loopBatch) \ {l} |-> loopBatch[x]]
         /\ UNCHANGED <<task, batches>>

(* ----------------------------- handler --------------------------------- *)
\* mutant: unshift instead of push
Push_Front(q, msg) == <<msg>> \o q

\* line 233: messageQueue.push(data)
Push(q, msg) == Append(q, msg)

\* lines 233-239: push, spawn a drain loop when none is recorded, answer 200
Enqueue(req) ==
    /\ arrived < MaxMsgs
    /\ LET mid == arrived + 1
           q   == Push(messageQueue, [mid |-> mid, kind |-> Kind(req.body.detail)])
       IN /\ arrived' = mid
          /\ IF ShouldSpawn(processingPromise)
             THEN /\ ProcessQueueParallel(mid, q)
                  /\ processingPromise' = mid
             ELSE /\ messageQueue' = q
                  /\ UNCHANGED <<processingPromise, loopBatch, task, batches>>
    /\ UNCHANGED <<sendCalls, replies, dropped, retry, proc>>

\* lines 211-249, from the resumption after `await req.json()` to the return:
\* what the run does to the program's state ...
HandlerRun(req) ==
    IF Admission(req) = "queued"
    THEN Enqueue(req)
    ELSE UNCHANGED <<messageQueue, processingPromise, loopBatch, task, arrived, batches,
                     sendCalls, replies, dropped, retry, proc>>

\* ... with the Response it returns left unobserved
Handler(req) == HandlerRun(req) /\ UNCHANGED response

NoResponse == [tick |-> 0, req |-> [method |-> "-", body |-> NoPayload], status |-> 0]

\* ... and with the Response observed; tick tells two runs on equal requests apart
HandlerResponds(req) ==
    /\ HandlerRun(req)
    /\ response' = [tick |-> 1 - response.tick, req |-> req, status |-> Status(req)]

(* ---------------------- per-message processing ------------------------- *)
\* line 192 settles.  processMessage returned a text: line 194 calls
\* sendMessageToBot(url, response) ...
OnGenerated(t, m) == [t EXCEPT !.pc = "send", !.kind = "-", !.body = "response", !.url = m]

\* ... or it threw: the catch of line 195 calls sendMessageToBot(url, errorMessage)
\* (lines 198-201)
OnGenerationError(t, m) ==
    [t EXCEPT !.pc = "fallback", !.kind = "-", !.body = "errorMessage", !.url = m]

GenDone(m) ==
    /\ task[m].pc = "gen"
    /\ task' = [task EXCEPT ![m] = IF ProcessMessageThrows(@.kind)
                                   THEN OnGenerationError(@, m)
                                   ELSE OnGenerated(@, m)]
    /\ sendCalls' = sendCalls + 1
    /\ UNCHANGED <<messageQueue, processingPromise, loopBatch, arrived, batches,
                   replies, dropped, retry, response, proc>>

\* the callback of batch.map returns: its promise is fulfilled
TaskFulfilled(t) == [t EXCEPT !.pc = "done", !.body = "-", !.url = 0]

\* mutant: the catch sends the generated response again
OnSendError_Resend(t, m) == [t EXCEPT !.pc = "fallback", !.url = m]

\* line 194 threw: catch of line 195, second sendMessageToBot call (lines 198-201)
OnSendError(t, m) == [t EXCEPT !.pc = "fallback", !.body = "errorMessage", !.url = m]

\* mutant: no inner try/catch, the callback's promise is rejected
OnFallbackError_Rethrow(t) == [t EXCEPT !.pc = "rejected", !.body = "-", !.url = 0]

\* line 201 threw: the catch of line 202 logs and the callback returns
OnFallbackError(t) == TaskFulfilled(t)

\* sendMessageToBot (lines 48-64) returns when fetchWithRetry returns a response
\* and resp.json() parses it; it rethrows when fetchWithRetry throws ("transport")
\* or the body is not JSON ("badjson")
SendOutcomes == {"ok", "transport", "badjson"}

\* mutant: a failed delivery of the response is swallowed, no error message is sent
SendDone_NoFallback(m, out) ==
    /\ task[m].pc = "send"
    /\ task' = [task EXCEPT ![m] = TaskFulfilled(@)]
    /\ replies' = IF out = "ok" THEN replies + 1 ELSE replies
    /\ UNCHANGED <<messageQueue, processingPromise, loopBatch, arrived, batches,
                   sendCalls, dropped, retry, response, proc>>

\* the sendMessageToBot call of line 194 settles
SendDone(m, out) ==
    /\ task[m].pc = "send"
    /\ IF out = "ok"
       THEN /\ task' = [task EXCEPT ![m] = TaskFulfilled(@)]
            /\ replies' = replies + 1
            /\ UNCHANGED sendCalls
       ELSE /\ task' = [task EXCEPT ![m] = OnSendError(@, m)]
            /\ sendCalls' = sendCalls + 1
            /\ UNCHANGED replies
    /\ UNCHANGED <<messageQueue, processingPromise, loopBatch, arrived, batches,
                   dropped, retry, response, proc>>

\* the sendMessageToBot call of line 201 settles
FallbackDone(m, out) ==
    /\ task[m].pc = "fallback"
    /\ IF out = "ok"
       THEN /\ task' = [task EXCEPT ![m] = TaskFulfilled(@)]
            /\ replies' = replies + 1
            /\ UNCHANGED dropped
       ELSE /\ task' = [task EXCEPT ![m] = OnFallbackError(@)]
            /\ dropped' = dropped + 1
            /\ UNCHANGED replies
    /\ UNCHANGED <<messageQueue, processingPromise, loopBatch, arrived, batches,
                   sendCalls, retry, response, proc>>

(* --------------------------- the drain loop ---------------------------- *)
\* line 190: Promise.all of the batch is fulfilled; invocation l goes back to
\* line 188 and either takes the next batch or clears processingPromise (line 208)
\* mutant: processingPromise is cleared after every batch
PromiseAfterResume_Always(q, pp) == 0

\* processingPromise once the invocation has run on from queue q: line 208 is
\* reached, in the same run, exactly when the test of line 188 fails
PromiseAfterResume(q, pp) == IF WhileCond(q) THEN pp ELSE 0

\* mutant: Promise.race instead of Promise.all
BatchSettled_Any(l) == \E m \in loopBatch[l] : task[m].pc = "done"

\* line 190: `await Promise.all(...)` returns once every callback's promise is fulfilled
BatchSettled(l) == \A m \in loopBatch[l] : task[m].pc = "done"

LoopResume(l) ==
    /\ l \in DOMAIN loopBatch
    /\ BatchSettled(l)
    /\ ProcessQueueParallel(l, messageQueue)
    /\ processingPromise' = PromiseAfterResume(messageQueue, processingPromise)
    /\ UNCHANGED <<arrived, sendCalls, replies, dropped, retry, response, proc>>

(* -------------------------- fetchWithRetry ----------------------------- *)
\* How one fetchWithTimeout attempt (lines 20-34) settles: fetch yields a Response,
\* of whatever status, before the timer fires, or fetch rejects (network failure),
\* or the timer fires first and the abort makes fetch reject (timeout).
Responses == {"http200", "http500"}
Failures == {"networkError", "timeout"}
AttemptOutcomes == Responses \cup Failures

\* mutant: a response with an error status is thrown, as if `response.ok` were tested
AttemptThrows_OnStatus(out) == out # "http200"

\* lines 23-33: fetchWithTimeout throws exactly when fetch rejects; a Response is
\* returned whatever its status
AttemptThrows(out) == out \in Failures

RECURSIVE Pow2(_)
Pow2(n) == IF n = 0 THEN 1 ELSE 2 * Pow2(n - 1)

\* mutant: the exponent is off by one
Backoff_Doubled(i) == backoffBase * Pow2(i + 1)

\* mutant: the delay grows linearly
Backoff_Linear(i) == backoffBase * (i + 1)

\* line 42: setTimeout(res, 1000 * Math.pow(2, i))
Backoff(i) == backoffBase * Pow2(i)

NoRetry == [pc |-> "idle", maxRetries |-> 0, i |-> 0, result |-> "-", trace |-> <<>>]

AttemptEvent(out) == [ev |-> "attempt", out |-> out, ms |-> 0]
DelayEvent(ms) == [ev |-> "delay", out |-> "-", ms |-> ms]

\* line 37: the loop test; the body starts an attempt (line 39), and past the loop
\* line 45 throws
LoopTop(r) ==
    IF r.i < r.maxRetries
    THEN [r EXCEPT !.pc = "fetching"]
    ELSE [r EXCEPT !.pc = "thrown", !.result = "Max retries reached"]

\* mutant: the last attempt is not recognised
IsLastAttempt_OffByOne(r) == r.i = r.maxRetries

\* line 41: if (i === maxRetries - 1) throw error
IsLastAttempt(r) == r.i = r.maxRetries - 1

\* fetchWithRetry(url, options, n) is called and runs up to its first await
RetryCall(n) ==
    /\ retry.pc = "idle"
    /\ retry' = LoopTop([retry EXCEPT !.maxRetries = n, !.i = 0])
    /\ UNCHANGED <<messageQueue, processingPromise, loopBatch, task, arrived, batches,
                   sendCalls, replies, dropped, response, proc>>

\* line 39 settles: `return await fetchWithTimeout(...)` returns the response, or
\* the catch of line 40 rethrows on the last attempt and else starts the delay
AttemptSettles(out) ==
    /\ retry.pc = "fetching"
    /\ LET r == [retry EXCEPT !.trace = Append(@, AttemptEvent(out))]
       IN retry' = IF ~AttemptThrows(out)
                   THEN [r EXCEPT !.pc = "returned", !.result = out]
                   ELSE IF IsLastAttempt(r)
                   THEN [r EXCEPT !.pc = "thrown", !.result = out]
                   ELSE [r EXCEPT !.pc = "delaying",
                                  !.trace = Append(@, DelayEvent(Backoff(r.i)))]
    /\ UNCHANGED <<messageQueue, processingPromise, loopBatch, task, arrived, batches,
                   sendCalls, replies, dropped, response, proc>>

\* the timer of line 42 fires: i++ and back to line 37
DelayElapses ==
    /\ retry.pc = "delaying"
    /\ retry' = LoopTop([retry EXCEPT !.i = @ + 1])
    /\ UNCHANGED <<messageQueue, processingPromise, loopBatch, task, arrived, batches,
                   sendCalls, replies, dropped, response, proc>>

(* ------------------------- one message in detail ---------------------- *)
\* The callback of batch.map (lines 190-206) for one message, with every network
\* attempt a step.  `retry` is the fetchWithRetry call in progress, if any.
NoProc == [pc |-> "idle", detail |-> "-", text |-> "-", threw |-> FALSE,
           body |-> "-", calls |-> 0, primaryFailed |-> FALSE, delivered |-> 0,
           imageFetches |-> 0, genAttempts |-> 0, sendAttempts |-> 0,
           fallbackAttempts |-> 0]

\* isImageMessage(message), for a message that has a detail
IsImageMessage(detail) == detail = "image"

\* lines 131/176 and 178: the apology of the message's modality
ApologyOf(detail) == IF IsImageMessage(detail) THEN "imageApology" ELSE "textApology"

\* a call fetchWithRetry(url, options) with the default maxRetries, up to its first await
StartCall == LoopTop([NoRetry EXCEPT !.maxRetries = maxRetriesDefault])

AttemptsMade(r) == Len(SelectSeq(r.trace, LAMBDA e : e.ev = "attempt"))

\* line 194: sendMessageToBot(url, response) is called with the text processMessage returned
SendResponse(p, text) == [p EXCEPT !.pc = "send", !.text = text, !.body = text, !.calls = @ + 1]

\* lines 195-201: the catch calls sendMessageToBot(url, errorMessage)
SendErrorMessage(p) == [p EXCEPT !.pc = "fallback", !.body = "errorMessage", !.calls = @ + 1]

\* mutant: the error message is sent once more when its delivery fails
AfterFallbackFailure_Again(p) ==
    IF p.calls <= 2
    THEN [p EXCEPT !.pc = "fallback", !.calls = @ + 1]
    ELSE [p EXCEPT !.pc = "done"]

\* lines 202-204: the failure of the second delivery is logged, the callback returns
AfterFallbackFailure(p) == [p EXCEPT !.pc = "done"]

\* The callback starts on an admitted message (lines 191-192) and processMessage
\* runs up to its first await: it throws on a message without detail (line 94) or
\* without string content (line 135), fetches the file of an image message (line
\* 101), and calls the backend for a text message (line 157).
ProcStart(req) ==
    /\ proc.pc = "idle"
    /\ Admission(req) = "queued"
    /\ LET p == [proc EXCEPT !.detail = req.body.detail]
       IN IF ProcessMessageThrows(Kind(p.detail))
          THEN /\ proc' = SendErrorMessage([p EXCEPT !.threw = TRUE])
               /\ retry' = StartCall
          ELSE IF IsImageMessage(p.detail)
          THEN /\ proc' = [p EXCEPT !.pc = "image", !.imageFetches = @ + 1]
               /\ UNCHANGED retry
          ELSE /\ proc' = [p EXCEPT !.pc = "gen"]
               /\ retry' = StartCall
    /\ UNCHANGED <<messageQueue, processingPromise, loopBatch, task, arrived, batches,
                   sendCalls, replies, dropped, response>>

\* getImageBase64 (lines 70-75) settles: the data url feeds the backend call, or the
\* catch of line 129 returns the image apology, which is sent
ImageSettles(ok) ==
    /\ proc.pc = "image"
    /\ IF ok
       THEN proc' = [proc EXCEPT !.pc = "gen"]
       ELSE proc' = SendResponse(proc, ApologyOf(proc.detail))
    /\ retry' = StartCall
    /\ UNCHANGED <<messageQueue, processingPromise, loopBatch, task, arrived, batches,
                   sendCalls, replies, dropped, response>>

\* what lines 167-171 make of the backend's Response: its text, or a throw (body not
\* JSON, no choices[0].message, content not a string)
BackendBodies == {"valid", "malformed", "notjson"}

\* the backend call returned a Response (line 156): lines 167-179, then line 194
GenReturns(bodyKind) ==
    /\ proc.pc = "gen"
    /\ retry.pc = "returned"
    /\ proc' = SendResponse([proc EXCEPT !.genAttempts = @ + AttemptsMade(retry)],
                            IF bodyKind = "valid" THEN "reply" ELSE ApologyOf(proc.detail))
    /\ retry' = StartCall
    /\ UNCHANGED <<messageQueue, processingPromise, loopBatch, task, arrived, batches,
                   sendCalls, replies, dropped, response>>

\* the backend call threw: the catch of line 172 returns the apology, which is sent
GenThrows ==
    /\ proc.pc = "gen"
    /\ retry.pc = "thrown"
    /\ proc' = SendResponse([proc EXCEPT !.genAttempts = @ + AttemptsMade(retry)],
                            ApologyOf(proc.detail))
    /\ retry' = StartCall
    /\ UNCHANGED <<messageQueue, processingPromise, loopBatch, task, arrived, batches,
                   sendCalls, replies, dropped, response>>

\* sendMessageToBot of line 194: fetchWithRetry returned and resp.json() parses
\* (line 58), or it does not and the catch of line 195 sends the error message
SendReturns(json) ==
    /\ proc.pc = "send"
    /\ retry.pc = "returned"
    /\ LET p == [proc EXCEPT !.sendAttempts = @ + AttemptsMade(retry)]
       IN IF json
          THEN /\ proc' = [p EXCEPT !.pc = "done", !.delivered = @ + 1]
               /\ retry' = NoRetry
          ELSE /\ proc' = SendErrorMessage([p EXCEPT !.primaryFailed = TRUE])
               /\ retry' = StartCall
    /\ UNCHANGED <<messageQueue, processingPromise, loopBatch, task, arrived, batches,
                   sendCalls, replies, dropped, response>>

\* sendMessageToBot of line 194: fetchWithRetry threw, rethrown at line 62
SendThrows ==
    /\ proc.pc = "send"
    /\ retry.pc = "thrown"
    /\ proc' = SendErrorMessage([proc EXCEPT !.sendAttempts = @ + AttemptsMade(retry),
                                            !.primaryFailed = TRUE])
    /\ retry' = StartCall
    /\ UNCHANGED <<messageQueue, processingPromise, loopBatch, task, arrived, batches,
                   sendCalls, replies, dropped, response>>

\* sendMessageToBot of line 201 returned, or threw on resp.json()
FallbackReturns(json) ==
    /\ proc.pc = "fallback"
    /\ retry.pc = "returned"
    /\ LET p == [proc EXCEPT !.fallbackAttempts = @ + AttemptsMade(retry)]
       IN IF json
          THEN /\ proc' = [p EXCEPT !.pc = "done", !.delivered = @ + 1]
               /\ retry' = NoRetry
          ELSE /\ proc' = AfterFallbackFailure(p)
               /\ retry' = IF AfterFallbackFailure(p).pc = "done" THEN NoRetry ELSE StartCall
    /\ UNCHANGED <<messageQueue, processingPromise, loopBatch, task, arrived, batches,
                   sendCalls, replies, dropped, response>>

\* sendMessageToBot of line 201: fetchWithRetry threw
FallbackThrows ==
    /\ proc.pc = "fallback"
    /\ retry.pc = "thrown"
    /\ LET p == [proc EXCEPT !.fallbackAttempts = @ + AttemptsMade(retry)]
       IN /\ proc' = AfterFallbackFailure(p)
          /\ retry' = IF AfterFallbackFailure(p).pc = "done" THEN NoRetry ELSE StartCall
    /\ UNCHANGED <<messageQueue, processingPromise, loopBatch, task, arrived, batches,
                   sendCalls, replies, dropped, response>>

(* ------------------------------- Spec ---------------------------------- *)
Init ==
    /\ messageQueue = <<>>
    /\ processingPromise = 0
    /\ loopBatch = <<>>
    /\ task = [m \in Mids |-> NoTask]
    /\ arrived = 0
    /\ batches = <<>>
    /\ sendCalls = 0
    /\ replies = 0
    /\ dropped = 0
    /\ retry = NoRetry
    /\ response = NoResponse
    /\ proc = NoProc

Next ==
    \/ \E req \in Requests : Handler(req)
    \/ \E m \in Mids : GenDone(m)
    \/ \E m \in Mids, out \in SendOutcomes : SendDone(m, out)
    \/ \E m \in Mids, out \in SendOutcomes : FallbackDone(m, out)
    \/ \E l \in Mids : LoopResume(l)

Spec == Init /\ [][Next]_vars

\* Every pending network call settles (it resolves, fails or times out) and the
\* event loop runs every continuation that is ready; requests need not keep coming.
Fairness ==
    /\ WF_vars(\E m \in Mids : GenDone(m))
    /\ WF_vars(\E m \in Mids, out \in SendOutcomes : SendDone(m, out))
    /\ WF_vars(\E m \in Mids, out \in SendOutcomes : FallbackDone(m, out))
    /\ WF_vars(\E l \in Mids : LoopResume(l))

FairSpec == Spec /\ Fairness

\* the queue and its drain loop, with the handler's Responses observed
NextAdmission ==
    \/ \E req \in Requests :
          /\ Admission(req) = "queued" => arrived < MaxAdmitted
          /\ HandlerResponds(req)
    \/ \E m \in Mids : GenDone(m)
    \/ \E m \in Mids, out \in SendOutcomes : SendDone(m, out)
    \/ \E m \in Mids, out \in SendOutcomes : FallbackDone(m, out)
    \/ \E l \in Mids : LoopResume(l)

SpecAdmission == Init /\ [][NextAdmission]_vars

\* one admitted message through the callback of batch.map
NextMessage ==
    \/ \E req \in Requests : ProcStart(req)
    \/ \E ok \in BOOLEAN : ImageSettles(ok)
    \/ \E out \in AttemptOutcomes : AttemptSettles(out)
    \/ DelayElapses
    \/ \E bodyKind \in BackendBodies : GenReturns(bodyKind)
    \/ GenThrows
    \/ \E json \in BOOLEAN : SendReturns(json)
    \/ SendThrows
    \/ \E json \in BOOLEAN : FallbackReturns(json)
    \/ FallbackThrows

SpecMessage == Init /\ [][NextMessage]_vars

\* every network attempt settles and every timer fires
FairnessMessage ==
    /\ WF_vars(\E ok \in BOOLEAN : ImageSettles(ok))
    /\ WF_vars(\E out \in AttemptOutcomes : AttemptSettles(out))
    /\ WF_vars(DelayElapses)
    /\ WF_vars(\E bodyKind \in BackendBodies : GenReturns(bodyKind))
    /\ WF_vars(GenThrows)
    /\ WF_vars(\E json \in BOOLEAN : SendReturns(json))
    /\ WF_vars(SendThrows)
    /\ WF_vars(\E json \in BOOLEAN : FallbackReturns(json))
    /\ WF_vars(FallbackThrows)

FairSpecMessage == SpecMessage /\ FairnessMessage

\* one fetchWithRetry call, for every maxRetries argument up to MaxRetriesArg
NextRetry ==
    \/ \E n \in 0..MaxRetriesArg : RetryCall(n)
    \/ \E out \in AttemptOutcomes : AttemptSettles(out)
    \/ DelayElapses

SpecRetry == Init /\ [][NextRetry]_vars

TypeOK ==
    /\ arrived \in 0..MaxMsgs
    /\ processingPromise \in 0..MaxMsgs
    /\ DOMAIN loopBatch \subseteq Mids
    /\ \A m \in Mids : task[m].pc \in {"none", "gen", "send", "fallback", "done", "rejected"}
    /\ proc.pc \in {"idle", "image", "gen", "send", "fallback", "done"}
    /\ proc.text \in {"-", "reply", "textApology", "imageApology"}

(* ============================= properties ============================== *)
QueuedMids == {messageQueue[i].mid : i \in DOMAIN messageQueue}
ActiveLoops == DOMAIN loopBatch
InFlight == {m \in Mids : task[m].pc \in {"gen", "send", "fallback"}}
Done(m) == task[m].pc = "done"
BatchSizes == [i \in DOMAIN batches |-> Len(batches[i])]
MidsOf(q) == [i \in DOMAIN q |-> q[i].mid]

\* C1: at most one invocation of processQueueParallel is unfinished at any
\* instant, whatever the interleaving of POST requests with the awaits of the loop.
C1_AtMostOneDrainLoop == Cardinality(ActiveLoops) <= 1

\* a request was queued while the one drain loop was waiting for its batch
C1_Witness ==
    /\ Cardinality(ActiveLoops) = 1
    /\ Len(messageQueue) >= 2
    /\ InFlight # {}

\* C2: every message pushed onto messageQueue is eventually spliced off it into a
\* batch, given that every network call settles and ready continuations run.
C2_EventuallyDequeued ==
    \A m \in Mids : (m \in QueuedMids) ~> (m \notin QueuedMids /\ task[m].pc # "none")

\* the last message waited in the queue behind a running batch and was dequeued
C2_Witness ==
    /\ arrived = MaxMsgs
    /\ Len(batches) >= 2
    /\ messageQueue = <<>>
    /\ task[MaxMsgs].pc # "none"

\* C3: a message is dequeued at most once: once in a batch it is not in the queue
\* again, it is in no second batch, and processMessage is started for it at most
\* once, also when its generation or its deliveries fail.
C3_DequeuedAtMostOnce ==
    /\ \A m \in Mids : task[m].starts <= 1
    /\ \A m \in Mids : task[m].pc # "none" => m \notin QueuedMids
    /\ \A i, j \in DOMAIN batches :
          \A x \in DOMAIN batches[i], y \in DOMAIN batches[j] :
              batches[i][x] = batches[j][y] => (i = j /\ x = y)
    /\ \A i, j \in DOMAIN messageQueue :
          messageQueue[i].mid = messageQueue[j].mid => i = j

\* a message lost both deliveries, and the loop went on to a later batch
C3_Witness ==
    /\ dropped >= 1
    /\ Len(batches) >= 2
    /\ \A m \in Mids : task[m].pc # "none" => task[m].starts = 1
    /\ arrived = MaxMsgs /\ \A m \in Mids : Done(m)

\* C4: processingPromise is cleared only by a loop that found the queue empty at
\* the top of an iteration, and whenever processingPromise is null, between any
\* two steps of handlers and loops, the queue is empty.
C4_IdleImpliesEmpty ==
    /\ [](processingPromise = 0 => messageQueue = <<>>)
    /\ [][(processingPromise # 0 /\ processingPromise' = 0)
            => (messageQueue = <<>> /\ messageQueue' = <<>>)]_vars

\* the loop has drained several batches and cleared processingPromise
C4_Witness ==
    /\ processingPromise = 0
    /\ ActiveLoops = {}
    /\ Len(batches) >= 2
    /\ arrived >= 4

\* C6 as stated: 5 messages enqueued by the handler from the idle state are
\* drained as a first batch of 3 and a second batch of 2.
C6_Original ==
    (arrived = 5 /\ messageQueue = <<>>) => BatchSizes = <<3, 2>>

\* C6 as amended: the enqueue that finds no drain loop starts one, which takes its
\* first batch in the same run, so the first batch is the first message alone;
\* every batch is the min(maxConcurrent, pending) oldest pending messages, the
\* message being pushed in that run included; 5 messages are never drained as 3
\* then 2.
C6_FirstBatchIsOne ==
    /\ [](/\ Len(batches) >= 1 => batches[1] = <<1>>
          /\ \A i \in DOMAIN batches : Len(batches[i]) \in 1..maxConcurrent
          /\ (arrived = 5 /\ messageQueue = <<>>) => BatchSizes # <<3, 2>>)
    /\ [][batches' # batches =>
            LET pending == MidsOf(messageQueue) \o
                              (IF arrived' > arrived THEN <<arrived'>> ELSE <<>>)
                taken   == Min(maxConcurrent, Len(pending))
            IN /\ batches' = Append(batches, SubSeq(pending, 1, taken))
               /\ MidsOf(messageQueue') = SubSeq(pending, taken + 1, Len(pending))]_vars

\* four more messages arrived while the first was processed: batches of 1, 3, 1
C6_Witness ==
    /\ arrived = 5
    /\ messageQueue = <<>>
    /\ BatchSizes = <<1, 3, 1>>

AllDone5 == arrived = 5 /\ \A m \in 1..5 : Done(m)

\* C7 as stated: for 5 enqueued messages exactly 5 replies are delivered,
\* whichever generation or delivery steps fail.
C7_Original == AllDone5 => replies = 5

\* C7 as amended: for 5 enqueued messages, once all are processed, every message
\* has either one delivered reply (the primary or the fallback sendMessageToBot call
\* returned) or none (its last call threw and it was dropped): replies + dropped = 5,
\* with between 5 and 10 sendMessageToBot calls made.
C7_RepliesPlusDropped ==
    AllDone5 => /\ replies + dropped = 5
                /\ replies \in 0..5
                /\ sendCalls \in 5..10

\* five messages processed, some answered and some dropped
C7_Witness == AllDone5 /\ replies = 3 /\ dropped = 2

\* C8: a failing message never rejects its batch callback: the step in which its
\* generation or a delivery fails leaves every other task untouched and the loop
\* in place, no task is ever rejected, and a loop whose batch has all settled can
\* always go on (to the next batch, or to its normal end).
C8_FailureIsolation ==
    /\ [](/\ \A m \in Mids : task[m].pc # "rejected"
          /\ \A l \in ActiveLoops :
                (\A m \in loopBatch[l] : task[m].pc \notin {"gen", "send", "fallback"})
                    => ENABLED LoopResume(l))
    /\ [][\A m \in Mids :
            (task[m].pc \in {"gen", "send", "fallback"} /\ task'[m] # task[m])
                => /\ task'[m].pc \in {"send", "fallback", "done"}
                   /\ \A o \in Mids \ {m} : task'[o] = task[o]
                   /\ loopBatch' = loopBatch
                   /\ messageQueue' = messageQueue
                   /\ processingPromise' = processingPromise]_vars

\* the first message got no reply at all, and the loop still took a second batch
\* and ended normally
C8_Witness ==
    /\ Done(1)
    /\ replies = 0
    /\ dropped >= 1
    /\ Len(batches) >= 2
    /\ processingPromise = 0

\* C9: when the sendMessageToBot call for the generated reply fails, exactly one
\* more call is made, with the fixed error message, to the reply url of the same
\* message; when that fails too the message is dropped: no third call, and the
\* message is never back in the queue.
C9_OneFallbackThenDrop ==
    [][\A m \in Mids :
        /\ (task[m].pc = "send" /\ task'[m] # task[m]) =>
              \/ /\ task'[m].pc = "done"
                 /\ replies' = replies + 1
                 /\ sendCalls' = sendCalls
              \/ /\ task'[m].pc = "fallback"
                 /\ task'[m].body = "errorMessage"
                 /\ task'[m].url = task[m].url
                 /\ task[m].url = m
                 /\ sendCalls' = sendCalls + 1
                 /\ replies' = replies
        /\ (task[m].pc = "fallback" /\ task'[m] # task[m]) =>
              /\ task'[m].pc = "done"
              /\ sendCalls' = sendCalls
              /\ m \notin {messageQueue'[i].mid : i \in DOMAIN messageQueue'}
        /\ task[m].pc = "done" =>
              /\ task'[m] = task[m]
              /\ m \notin {messageQueue'[i].mid : i \in DOMAIN messageQueue'}]_vars

\* the only message had its reply and then the error message refused
C9_Witness ==
    /\ arrived = 1
    /\ Done(1)
    /\ sendCalls = 2
    /\ replies = 0
    /\ dropped = 1

AttemptsOf(trace) == SelectSeq(trace, LAMBDA e : e.ev = "attempt")
DelaysOf(trace) == SelectSeq(trace, LAMBDA e : e.ev = "delay")

FailFailOk(r) ==
    /\ r.maxRetries = maxRetriesDefault
    /\ Len(AttemptsOf(r.trace)) >= 3
    /\ AttemptsOf(r.trace)[1].out \in Failures
    /\ AttemptsOf(r.trace)[2].out \in Failures
    /\ AttemptsOf(r.trace)[3].out \in Responses

\* C10: a fetchWithRetry call with maxRetries = 3 whose attempts 1 and 2 fail and
\* whose attempt 3 yields a response returns that response after exactly three
\* attempts and two delays, 1000 ms after the first and 2000 ms after the second
\* attempt, with no delay before the first attempt.
C10_FailFailOk ==
    /\ retry.trace # <<>> => retry.trace[1].ev = "attempt"
    /\ FailFailOk(retry) =>
          /\ retry.pc = "returned"
          /\ retry.result = retry.trace[5].out
          /\ Len(retry.trace) = 5
          /\ retry.trace[1].ev = "attempt"
          /\ retry.trace[2] = DelayEvent(1000)
          /\ retry.trace[3].ev = "attempt"
          /\ retry.trace[4] = DelayEvent(2000)
          /\ retry.trace[5].ev = "attempt"

\* a call that returned on its third attempt
C10_Witness ==
    /\ FailFailOk(retry)
    /\ retry.pc = "returned"

AllAttemptsFailed(r) ==
    /\ r.maxRetries >= 1
    /\ Len(AttemptsOf(r.trace)) = r.maxRetries
    /\ \A j \in DOMAIN AttemptsOf(r.trace) : AttemptsOf(r.trace)[j].out \in Failures

\* C11: a fetchWithRetry call whose maxRetries attempts all fail throws the error of
\* the last attempt after exactly maxRetries attempts: there is never an attempt
\* beyond maxRetries, and no delay is waited after the last failed attempt.
C11_AllAttemptsFail ==
    /\ Len(AttemptsOf(retry.trace)) <= retry.maxRetries
    /\ AllAttemptsFailed(retry) =>
          /\ retry.pc = "thrown"
          /\ retry.result = retry.trace[Len(retry.trace)].out
          /\ retry.trace[Len(retry.trace)].ev = "attempt"
          /\ Len(DelaysOf(retry.trace)) = retry.maxRetries - 1

\* the default three attempts all failed
C11_Witness ==
    /\ AllAttemptsFailed(retry)
    /\ retry.maxRetries = maxRetriesDefault
    /\ retry.pc = "thrown"

\* the index (0-based) of the attempt that follows position j of the trace
RetryIndexAt(trace, j) == Len(AttemptsOf(SubSeq(trace, 1, j)))

\* C12 as stated: the delay waited before retry i (0-indexed, i >= 1) is
\* 1000 * 2^i ms.
C12_Original ==
    \A j \in DOMAIN retry.trace :
        retry.trace[j].ev = "delay" =>
            retry.trace[j].ms = 1000 * Pow2(RetryIndexAt(retry.trace, j))

\* C12 as amended: the delay waited before retry i (0-indexed, i >= 1) is
\* 1000 * 2^(i-1) ms: 1000 before the second attempt, 2000 before the third.
C12_DelayBeforeRetry ==
    \A j \in DOMAIN retry.trace :
        retry.trace[j].ev = "delay" =>
            /\ RetryIndexAt(retry.trace, j) >= 1
            /\ RetryIndexAt(retry.trace, j) < retry.maxRetries
            /\ retry.trace[j].ms = 1000 * Pow2(RetryIndexAt(retry.trace, j) - 1)

\* a call that has waited three times: 1000, 2000 and 4000 ms
C12_Witness ==
    /\ Len(DelaysOf(retry.trace)) = 3
    /\ DelaysOf(retry.trace)[3].ms = 4000

\* C19: fetchWithRetry retries only after an attempt that threw: an attempt that
\* yields a Response, of whatever status, is the last event of the call, which
\* returns that Response; every delay follows a failed attempt.
C19_ResponsesAreNotRetried ==
    /\ [](\A j \in DOMAIN retry.trace :
            /\ (retry.trace[j].ev = "attempt" /\ retry.trace[j].out \in Responses) =>
                  /\ j = Len(retry.trace)
                  /\ retry.pc = "returned"
                  /\ retry.result = retry.trace[j].out
            /\ retry.trace[j].ev = "delay" =>
                  /\ j > 1
                  /\ retry.trace[j - 1].ev = "attempt"
                  /\ retry.trace[j - 1].out \in Failures)
    /\ [][retry.pc = "returned" => retry' = retry]_vars

\* a first attempt answered with an error status ended the call
C19_Witness ==
    /\ retry.pc = "returned"
    /\ retry.result = "http500"
    /\ Len(retry.trace) = 1

(* ------------------------------ admission ------------------------------ *)
\* the step is a run of the handler
HandlerStep == response'.tick # response.tick
\* the step adds nothing to the queue and starts no drain loop
NothingQueued ==
    UNCHANGED <<messageQueue, processingPromise, loopBatch, task, arrived, batches>>
\* the step pushes the request's message
Queued == arrived' = arrived + 1

\* a POST whose body is not a well-formed message
Malformed(req) ==
    /\ req.method = "POST"
    /\ \/ ~req.body.json
       \/ req.body.target = "missing"
       \/ req.body.detail \in {"missing", "nocontent"}

\* C14: a POST whose payload is not a well-formed message (unparsable, or without
\* target, detail or content) is answered 500 and leaves messageQueue and
\* processingPromise as they were.
C14_MalformedIsRejected ==
    /\ [](Malformed(response.req) => response.status = 500)
    /\ [][(HandlerStep /\ Malformed(response'.req)) => NothingQueued]_vars

SelfMessage(req) == req.method = "POST" /\ req.body.json /\ req.body.from_bot

\* C15: an event sent by the bot itself is answered 200 and is not enqueued:
\* messageQueue and processingPromise are unchanged and no drain loop starts,
\* whatever its target and mentions.
C15_SelfMessageIgnored ==
    /\ [](SelfMessage(response.req) => response.status = 200)
    /\ [][(HandlerStep /\ SelfMessage(response'.req)) => NothingQueued]_vars

\* a group message of the bot that mentions the bot arrived while a message was
\* waiting behind the running batch
C15_Witness ==
    /\ SelfMessage(response.req)
    /\ response.req.body.target = "gid"
    /\ response.req.body.mention = "list"
    /\ response.status = 200
    /\ Len(messageQueue) >= 1
    /\ processingPromise # 0

NonSelf(req, target) ==
    /\ req.method = "POST" /\ req.body.json /\ ~req.body.from_bot
    /\ req.body.target = target
MentionsBot(req) == req.body.mention # "none"

ContentReadable(req) == req.body.detail \in {"text", "image"}

C17_BatchBarrier ==
    /\ [](Cardinality(InFlight) <= maxConcurrent)
    /\ [][batches' # batches =>
            /\ InFlight = {}
            /\ \A i \in DOMAIN batches : \A x \in DOMAIN batches[i] : Done(batches[i][x])
            /\ InFlight' = Range(batches'[Len(batches')])]_vars

\* a full batch is in flight while a message waits in the queue
C17_Witness ==
    /\ Cardinality(InFlight) = maxConcurrent
    /\ Len(messageQueue) >= 1
    /\ Len(batches) = 2

RECURSIVE Flatten(_)
Flatten(ss) == IF ss = <<>> THEN <<>> ELSE Head(ss) \o Flatten(Tail(ss))

\* C18: batches are formed first in, first out: the batches in the order they were
\* taken, followed by the messages still pending, list the messages in the order
\* they were enqueued, and each batch takes min(maxConcurrent, pending) messages.
C18_FifoBatches ==
    /\ [](Flatten(batches) \o MidsOf(messageQueue) = [i \in 1..arrived |-> i])
    /\ [][batches' # batches =>
            Len(batches'[Len(batches')]) =
                Min(maxConcurrent, Len(messageQueue) + (arrived' - arrived))]_vars

\* a batch of one, then the three oldest of four pending, the fifth still pending
C18_Witness ==
    /\ batches = <<(<<1>>), (<<2, 3, 4>>)>>
    /\ MidsOf(messageQueue) = <<5>>

\* C13: processMessage is total: for every admitted message and every outcome of
\* the attachment fetch and of the backend it returns a text and never throws to
\* the scheduler, and a text that reports a failure is the apology of the
\* message's modality.
C13_ProcessMessageTotal ==
    /\ ~proc.threw
    /\ proc.pc \in {"send", "fallback", "done"} =>
           proc.text \in {"reply", ApologyOf(proc.detail)}

\* attempts of the call in progress count for the phase that made the call
GenAttemptsSoFar ==
    proc.genAttempts + (IF proc.pc = "gen" THEN AttemptsMade(retry) ELSE 0)
SendAttemptsSoFar ==
    proc.sendAttempts + (IF proc.pc = "send" THEN AttemptsMade(retry) ELSE 0)
FallbackAttemptsSoFar ==
    proc.fallbackAttempts + (IF proc.pc = "fallback" THEN AttemptsMade(retry) ELSE 0)
FallbackMade == proc.pc = "fallback" \/ proc.body = "errorMessage"

\* C20: processing a dequeued message terminates when every network attempt
\* settles, after at most 1 image fetch, at most maxRetries backend attempts and
\* at most 2 sendMessageToBot calls of at most maxRetries attempts each; the
\* second delivery follows only a throw of processMessage or a failed first one.
C20_BoundedProcessing ==
    /\ [](/\ proc.imageFetches <= 1
          /\ GenAttemptsSoFar <= maxRetriesDefault
          /\ proc.calls <= 2
          /\ SendAttemptsSoFar <= maxRetriesDefault
          /\ FallbackAttemptsSoFar <= maxRetriesDefault
          /\ FallbackMade => proc.threw \/ proc.primaryFailed
          /\ proc.threw => proc.genAttempts = 0 /\ proc.sendAttempts = 0)
    /\ (proc.pc # "idle" ~> proc.pc = "done")

\* an image message used every attempt it has: one image fetch, three backend
\* attempts, three attempts of each of the two deliveries, and was dropped
C20_Witness ==
    /\ proc.pc = "done"
    /\ proc.imageFetches = 1
    /\ proc.genAttempts = maxRetriesDefault
    /\ proc.calls = 2
    /\ proc.sendAttempts = maxRetriesDefault
    /\ proc.fallbackAttempts = maxRetriesDefault
    /\ proc.delivered = 0

====
